---- MODULE Spec2Model ----
(***************************************************************************)
(* Model of the postgres_lsp code generator (crates/codegen) and of the    *)
(* functions it generates:                                                 *)
(*   - get_node_properties: the implied-token sequence of one AST node     *)
(*     (custom rule table followed by the generic string-field pass);      *)
(*   - syntax_kind_mod: the SyntaxKind enumeration merged from the         *)
(*     synthetic names, the grammar node names and the token names, and    *)
(*     the two classifiers new_from_pg_query_node / _token it emits;       *)
(*   - TokenProperty::new and the From<..> conversions into TokenProperty. *)
(*                                                                         *)
(* Texts are sequences of one-character strings, so that to_lowercase and  *)
(* to_string are computed and not assumed.  Option<T> is a sequence of     *)
(* length 0 (None) or 1 (Some).                                            *)
(***************************************************************************)
EXTENDS Integers, Sequences, FiniteSets, TLC

VARIABLES
    node,          \* get_node_properties: the NodeEnum instance passed in
    fields,        \* get_node_properties: node.fields of that node's descriptor
    tokens,        \* get_node_properties: the Vec<TokenProperty> returned
    proto_nodes,   \* syntax_kind_mod: proto_file.nodes (names)
    proto_tokens,  \* syntax_kind_mod: proto_file.tokens ({name, value})
    syntax_kind,   \* syntax_kind_mod: the identifier lists spliced into the enum
    arg,           \* classifiers and conversions: the call and its argument
    ret,           \* classifiers and conversions: what the call returned
    pc             \* position of the call: "start", then how it ended

vars == <<node, fields, tokens, proto_nodes, proto_tokens, syntax_kind,
          arg, ret, pc>>

(***************************************************************************)
(* Bounds of the model.                                                    *)
(***************************************************************************)
\* longest repeated field (Vec) of a node instance
MaxList == 1
\* discriminant fields range over -1 .. MaxDiscr
MaxDiscr == 31
\* longest descriptor drawn for a node type outside the rule table
MaxFields == 3
\* longest text drawn for a string field of such a node
MaxLen == 2
\* longest node-name list of a grammar descriptor
MaxNodes == 2
\* longest token list of a grammar descriptor
MaxTokens == 3
\* longest funcname list of a FuncCall instance
MaxFuncname == 2

None == <<>>
Some(x) == <<x>>
is_some(o) == Len(o) > 0

(***************************************************************************)
(* Texts                                                                   *)
(***************************************************************************)
LowerChar(c) ==
    CASE c = "F" -> "f"
      [] c = "C" -> "c"
      [] c = "O" -> "o"
      [] OTHER -> c

\* String::to_lowercase
to_lowercase(s) == [i \in 1..Len(s) |-> LowerChar(s[i])]

DigitChar(d) ==
    CASE d = 0 -> "0" [] d = 1 -> "1" [] d = 2 -> "2" [] d = 3 -> "3"
      [] d = 4 -> "4" [] d = 5 -> "5" [] d = 6 -> "6" [] d = 7 -> "7"
      [] d = 8 -> "8" [] d = 9 -> "9"

RECURSIVE NatToText(_)
NatToText(k) == IF k < 10 THEN <<DigitChar(k)>>
                ELSE NatToText(k \div 10) \o <<DigitChar(k % 10)>>

\* i32::to_string
int_to_string(i) == IF i < 0 THEN <<"-">> \o NatToText(-i) ELSE NatToText(i)

\* bool::to_string
bool_to_string(b) == IF b THEN <<"t","r","u","e">> ELSE <<"f","a","l","s","e">>

Foo == <<"F","o","o">>
Count == <<"c","o","u","n","t">>

(***************************************************************************)
(* TokenProperty and its conversions                                       *)
(***************************************************************************)
\* mutant: the kind of the token is lost
FromToken_absent(token) == [value |-> None, kind |-> None]

\* impl From<Token>: SyntaxKind::from(token) keeps the token's name
FromToken(token) == [value |-> None, kind |-> Some(token)]

\* impl From<String>: the property, defined when the assert on the length passes
FromString(value) == [value |-> Some(to_lowercase(value)), kind |-> None]

\* impl From<&pg_query::protobuf::Integer>
FromInteger(n) == [value |-> Some(int_to_string(n.ival)), kind |-> Some("Iconst")]

\* impl From<&pg_query::protobuf::Boolean>
FromBoolean(n) ==
    [value |-> Some(bool_to_string(n.boolval)),
     kind |-> IF n.boolval THEN Some("TrueP") ELSE Some("FalseP")]

\* what a call of a generated function gives back
Returned(v) == [panic |-> FALSE, res |-> <<v>>]
Panicked == [panic |-> TRUE, res |-> <<>>]

\* mutant: a property needs both fields
TokenProperty_new_strict(value, kind) ==
    IF value = None \/ kind = None THEN Panicked
    ELSE Returned([value |-> value, kind |-> kind])

\* TokenProperty::new
TokenProperty_new(value, kind) ==
    IF value = None /\ kind = None THEN Panicked
    ELSE Returned([value |-> value, kind |-> kind])

\* impl From<i32>, From<u32>, From<i64>, From<u64>
from_i32(value) == [value |-> Some(int_to_string(value)), kind |-> None]
from_u32(value) == [value |-> Some(int_to_string(value)), kind |-> None]
from_i64(value) == [value |-> Some(int_to_string(value)), kind |-> None]
from_u64(value) == [value |-> Some(int_to_string(value)), kind |-> None]

\* f64::to_string: "NaN", "inf" or the decimal digits, with a fraction only
\* when there is one; the sign is printed also for -0 and -inf
f64_to_string(x) ==
    (IF x.neg THEN <<"-">> ELSE <<>>) \o
    ( CASE x.class = "nan" -> <<"N","a","N">>
        [] x.class = "inf" -> <<"i","n","f">>
        [] OTHER -> NatToText(x.whole) \o
                    ( IF x.frac = <<>> THEN <<>>
                      ELSE <<".">> \o [i \in 1..Len(x.frac) |-> DigitChar(x.frac[i])] ) )

\* impl From<f64>
from_f64(value) == [value |-> Some(f64_to_string(value)), kind |-> None]

\* impl From<bool>
from_bool(value) == [value |-> Some(bool_to_string(value)), kind |-> None]

\* mutant: the conversion from text without its assert
from_String_unchecked(value) == Returned(FromString(value))

\* impl From<String>, the assert on the length included
from_String(value) ==
    IF Len(value) > 0 THEN Returned(FromString(value)) ELSE Panicked

\* impl From<SyntaxKind>
from_SyntaxKind(kind) == [value |-> None, kind |-> Some(kind)]

(***************************************************************************)
(* Outcome of a block of generated statements: the tokens pushed, or a     *)
(* panic (the call unwinds and returns nothing).                           *)
(***************************************************************************)
Ok(s) == [panic |-> FALSE, toks |-> s]
Panic == [panic |-> TRUE, toks |-> <<>>]
Then(a, b) == IF a.panic \/ b.panic THEN Panic ELSE Ok(a.toks \o b.toks)
Push(token) == Ok(<<FromToken(token)>>)
PushIf(cond, ts) == Ok(IF cond THEN [i \in 1..Len(ts) |-> FromToken(ts[i])] ELSE <<>>)
PushAll(ts) == PushIf(TRUE, ts)
Nothing == Ok(<<>>)

\* tokens.push(TokenProperty::from(value)) for a String value: the assert of
\* From<String> panics on an empty value
PushString(value) == IF Len(value) > 0 THEN Ok(<<FromString(value)>>) ELSE Panic

RECURSIVE Block(_)
Block(stmts) == IF stmts = <<>> THEN Nothing
                ELSE Then(Head(stmts), Block(Tail(stmts)))

(***************************************************************************)
(* custom_handlers: one operator per arm of the match on node.name         *)
(***************************************************************************)
\* mutant: the Values and From guards in the other order
custom_SelectStmt_reordered(n) ==
    Block(<< Push("Select"),
             PushIf(Len(n.distinct_clause) > 0, <<"Distinct">>),
             PushIf(Len(n.from_clause) > 0, <<"From">>),
             PushIf(Len(n.values_lists) > 0, <<"Values">>),
             PushIf(is_some(n.where_clause), <<"Where">>),
             PushIf(Len(n.group_clause) > 0, <<"GroupP", "By">>) >>)

custom_SelectStmt(n) ==
    Block(<< Push("Select"),
             PushIf(Len(n.distinct_clause) > 0, <<"Distinct">>),
             PushIf(Len(n.values_lists) > 0, <<"Values">>),
             PushIf(Len(n.from_clause) > 0, <<"From">>),
             PushIf(is_some(n.where_clause), <<"Where">>),
             PushIf(Len(n.group_clause) > 0, <<"GroupP", "By">>) >>)

\* mutant: an unknown boolop is ignored instead of panicking
custom_BoolExpr_lenient(n) ==
    CASE n.boolop = 1 -> Push("And")
      [] n.boolop = 2 -> Push("Or")
      [] n.boolop = 3 -> Push("Not")
      [] OTHER -> Nothing

custom_BoolExpr(n) ==
    CASE n.boolop = 1 -> Push("And")
      [] n.boolop = 2 -> Push("Or")
      [] n.boolop = 3 -> Push("Not")
      [] OTHER -> Panic

custom_JoinExpr(n) ==
    Block(<< Push("Join"),
             Push("On"),
             CASE n.jointype = 1 -> Push("InnerP")
               [] n.jointype = 2 -> Push("Left")
               [] n.jointype = 3 -> Push("Full")
               [] n.jointype = 4 -> Push("Right")
               [] OTHER -> Panic >>)

custom_ResTarget(n) == PushIf(Len(n.name) > 0, <<"As">>)

custom_Integer(n) == Ok(<<FromInteger(n)>>)

custom_DefElem(n) ==
    CASE n.defaction = 1 -> Push("Ascii61")
      [] OTHER -> Panic

custom_Alias(n) == Push("As")

custom_CollateClause(n) == Push("Collate")

custom_AExpr(n) ==
    CASE n.kind = 1 -> Nothing
      [] n.kind = 2 -> Push("Any")
      [] n.kind = 7 -> Push("InP")
      [] OTHER -> Panic

custom_WindowDef(n) ==
    Block(<< PushIf(Len(n.partition_clause) > 0 \/ Len(n.order_clause) > 0,
                    <<"Window", "As">>),
             PushIf(Len(n.partition_clause) > 0, <<"Partition", "By">>) >>)

custom_Boolean(n) == Ok(<<FromBoolean(n)>>)

custom_AStar(n) == Push("Ascii42")

\* mutant: the wildcard marker for any function name
custom_FuncCall_anyname(n) ==
    Block(<< PushIf(/\ Len(n.funcname) = 1 /\ Len(n.args) = 0
                    /\ is_some(n.funcname[1].node)
                    /\ n.funcname[1].node[1].type = "String",
                    <<"Ascii42">>),
             PushIf(is_some(n.agg_filter), <<"Filter", "Where">>),
             PushIf(is_some(n.over), <<"Over">>) >>)

custom_FuncCall(n) ==
    Block(<< PushIf(/\ Len(n.funcname) = 1 /\ Len(n.args) = 0
                    /\ is_some(n.funcname[1].node)
                    /\ n.funcname[1].node[1].type = "String"
                    /\ n.funcname[1].node[1].sval = Count,
                    <<"Ascii42">>),
             PushIf(is_some(n.agg_filter), <<"Filter", "Where">>),
             PushIf(is_some(n.over), <<"Over">>) >>)

custom_SqlvalueFunction(n) ==
    CASE n.op = 10 -> Push("CurrentRole")
      [] n.op = 11 -> Push("CurrentUser")
      [] OTHER -> Panic

custom_SortBy(n) ==
    Block(<< Push("Order"),
             Push("By"),
             CASE n.sortby_dir = 2 -> Push("Asc")
               [] n.sortby_dir = 3 -> Push("Desc")
               [] OTHER -> Nothing >>)

custom_AConst(n) == PushIf(n.isnull, <<"NullP">>)

custom_AlterTableStmt(n) == PushAll(<<"Alter", "Table">>)

custom_AlterTableCmd(n) ==
    Block(<< Push("Alter"),
             CASE n.subtype = 4 -> PushAll(<<"Column", "Set", "Default">>)
               [] n.subtype = 19 -> Push("AddP")
               [] n.subtype = 30 -> PushAll(<<"Alter", "Column", "TypeP">>)
               [] OTHER -> Panic >>)

custom_VariableSetStmt(n) ==
    Block(<< Push("Set"),
             CASE n.kind = 1 -> Push("To")
               [] OTHER -> Panic >>)

custom_CreatePolicyStmt(n) ==
    Block(<< PushAll(<<"Create", "Policy", "On">>),
             PushIf(Len(n.roles) > 0, <<"To">>),
             PushIf(is_some(n.qual), <<"Using">>),
             PushIf(is_some(n.with_check), <<"With", "Check">>) >>)

custom_CopyStmt(n) == PushAll(<<"Copy", "From">>)

custom_RenameStmt(n) == PushAll(<<"Alter", "Table", "Rename", "To">>)

custom_Constraint(n) ==
    CASE n.contype = 2 -> PushAll(<<"Not", "NullP">>)
      [] n.contype = 3 -> Push("Default")
      [] n.contype = 6 -> Push("Check")
      [] n.contype = 7 -> PushAll(<<"Primary", "Key">>)
      [] n.contype = 10 -> Push("References")
      [] OTHER -> Panic

custom_PartitionSpec(n) == PushAll(<<"Partition", "By">>)

custom_InsertStmt(n) == PushAll(<<"Insert", "Into">>)

custom_DeleteStmt(n) ==
    Block(<< PushAll(<<"DeleteP", "From">>),
             PushIf(is_some(n.where_clause), <<"Where">>),
             PushIf(Len(n.using_clause) > 0, <<"Using">>) >>)

custom_ViewStmt(n) ==
    Block(<< PushAll(<<"Create", "View">>),
             PushIf(is_some(n.query), <<"As">>),
             PushIf(n.replace, <<"Or", "Replace">>) >>)

custom_CreateStmt(n) ==
    Block(<< PushAll(<<"Create", "Table">>),
             PushIf(Len(n.tablespacename) > 0, <<"Tablespace">>),
             PushIf(Len(n.options) > 0, <<"With">>),
             PushIf(n.if_not_exists, <<"IfP", "Not", "Exists">>),
             PushIf(is_some(n.partbound), <<"Partition", "Of", "For", "Values">>) >>)

custom_PartitionBoundSpec(n) == PushAll(<<"From", "To">>)

custom_CaseExpr(n) ==
    Block(<< PushAll(<<"Case", "EndP">>),
             PushIf(is_some(n.defresult), <<"Else">>) >>)

custom_NullTest(n) ==
    Block(<< CASE n.nulltesttype = 1 -> Push("Is")
               [] n.nulltesttype = 2 -> PushAll(<<"Is", "Not">>)
               [] OTHER -> Panic,
             Push("NullP") >>)

custom_CreateFunctionStmt(n) ==
    Block(<< PushAll(<<"Create", "Function">>),
             PushIf(n.replace, <<"Or", "Replace">>),
             PushIf(is_some(n.return_type), <<"Returns">>) >>)

custom_FunctionParameter(n) ==
    Block(<< CASE n.mode = 1 -> Push("InP")
               [] n.mode = 2 -> Push("OutP")
               [] n.mode = 3 -> Push("Inout")
               [] n.mode = 4 -> Push("Variadic")
               [] n.mode = 6 -> Nothing
               [] OTHER -> Panic,
             PushIf(is_some(n.defexpr), <<"Default">>) >>)

custom_NamedArgExpr(n) == Push("EqualsGreater")

custom_CaseWhen(n) == PushAll(<<"When", "Then">>)

custom_TypeCast(n) == Push("Typecast")

custom_handlers(n) ==
    CASE n.type = "SelectStmt" -> custom_SelectStmt(n)
      [] n.type = "BoolExpr" -> custom_BoolExpr(n)
      [] n.type = "JoinExpr" -> custom_JoinExpr(n)
      [] n.type = "ResTarget" -> custom_ResTarget(n)
      [] n.type = "Integer" -> custom_Integer(n)
      [] n.type = "DefElem" -> custom_DefElem(n)
      [] n.type = "Alias" -> custom_Alias(n)
      [] n.type = "CollateClause" -> custom_CollateClause(n)
      [] n.type = "AExpr" -> custom_AExpr(n)
      [] n.type = "WindowDef" -> custom_WindowDef(n)
      [] n.type = "Boolean" -> custom_Boolean(n)
      [] n.type = "AStar" -> custom_AStar(n)
      [] n.type = "FuncCall" -> custom_FuncCall(n)
      [] n.type = "SqlvalueFunction" -> custom_SqlvalueFunction(n)
      [] n.type = "SortBy" -> custom_SortBy(n)
      [] n.type = "AConst" -> custom_AConst(n)
      [] n.type = "AlterTableStmt" -> custom_AlterTableStmt(n)
      [] n.type = "AlterTableCmd" -> custom_AlterTableCmd(n)
      [] n.type = "VariableSetStmt" -> custom_VariableSetStmt(n)
      [] n.type = "CreatePolicyStmt" -> custom_CreatePolicyStmt(n)
      [] n.type = "CopyStmt" -> custom_CopyStmt(n)
      [] n.type = "RenameStmt" -> custom_RenameStmt(n)
      [] n.type = "Constraint" -> custom_Constraint(n)
      [] n.type = "PartitionSpec" -> custom_PartitionSpec(n)
      [] n.type = "InsertStmt" -> custom_InsertStmt(n)
      [] n.type = "DeleteStmt" -> custom_DeleteStmt(n)
      [] n.type = "ViewStmt" -> custom_ViewStmt(n)
      [] n.type = "CreateStmt" -> custom_CreateStmt(n)
      [] n.type = "PartitionBoundSpec" -> custom_PartitionBoundSpec(n)
      [] n.type = "CaseExpr" -> custom_CaseExpr(n)
      [] n.type = "NullTest" -> custom_NullTest(n)
      [] n.type = "CreateFunctionStmt" -> custom_CreateFunctionStmt(n)
      [] n.type = "FunctionParameter" -> custom_FunctionParameter(n)
      [] n.type = "NamedArgExpr" -> custom_NamedArgExpr(n)
      [] n.type = "CaseWhen" -> custom_CaseWhen(n)
      [] n.type = "TypeCast" -> custom_TypeCast(n)
      [] OTHER -> Nothing

(***************************************************************************)
(* string_property_handlers: the generic pass over a node's descriptor     *)
(***************************************************************************)
\* mutant: the handler pushes the field without testing its length
string_property_handler_unguarded(field, n) ==
    IF field.repeated THEN Nothing
    ELSE IF field.field_type = "String" THEN PushString(n[field.name])
         ELSE Nothing

\* the filter_map closure: the handler generated for one field
string_property_handler(field, n) ==
    IF field.repeated THEN Nothing
    ELSE IF field.field_type = "String"
         THEN IF Len(n[field.name]) > 0 THEN PushString(n[field.name]) ELSE Nothing
         ELSE Nothing

RECURSIVE string_property_handlers(_, _)
string_property_handlers(fs, n) ==
    IF fs = <<>> THEN Nothing
    ELSE Then(string_property_handler(Head(fs), n),
              string_property_handlers(Tail(fs), n))

\* mutant: the generic handlers spliced before the custom rule
node_handlers_swapped(fs, n) ==
    Then(string_property_handlers(fs, n), custom_handlers(n))

\* node_handlers: the body generated for one node, #custom_handlers and
\* then #(#string_property_handlers)*
node_handlers(fs, n) == Then(custom_handlers(n), string_property_handlers(fs, n))

\* get_node_properties: the arm of the node's variant
get_node_properties(fs, n) == node_handlers(fs, n)

(***************************************************************************)
(* The grammar descriptor: the field lists of the node messages the rule   *)
(* table names (name, type, repeated), in declared order.                  *)
(***************************************************************************)
Fld(name, type, rep) == [name |-> name, field_type |-> type, repeated |-> rep]
StrF(name) == Fld(name, "String", FALSE)
MsgF(name) == Fld(name, "Node", FALSE)
RepF(name) == Fld(name, "Node", TRUE)
EnumF(name) == Fld(name, "Enum", FALSE)
BoolF(name) == Fld(name, "Bool", FALSE)
IntF(name) == Fld(name, "Int32", FALSE)
UintF(name) == Fld(name, "Uint32", FALSE)

NodeFields(t) ==
    CASE t = "SelectStmt" ->
           << RepF("distinct_clause"), MsgF("into_clause"), RepF("target_list"),
              RepF("from_clause"), MsgF("where_clause"), RepF("group_clause"),
              BoolF("group_distinct"), MsgF("having_clause"), RepF("window_clause"),
              RepF("values_lists"), RepF("sort_clause"), MsgF("limit_offset"),
              MsgF("limit_count"), EnumF("limit_option"), RepF("locking_clause"),
              MsgF("with_clause"), EnumF("op"), BoolF("all"), MsgF("larg"), MsgF("rarg") >>
      [] t = "BoolExpr" -> << MsgF("xpr"), EnumF("boolop"), RepF("args"), IntF("location") >>
      [] t = "JoinExpr" ->
           << EnumF("jointype"), BoolF("is_natural"), MsgF("larg"), MsgF("rarg"),
              RepF("using_clause"), MsgF("join_using_alias"), MsgF("quals"), MsgF("alias"),
              IntF("rtindex") >>
      [] t = "ResTarget" ->
           << StrF("name"), RepF("indirection"), MsgF("val"), IntF("location") >>
      [] t = "Integer" -> << IntF("ival") >>
      [] t = "DefElem" ->
           << StrF("defnamespace"), StrF("defname"), MsgF("arg"), EnumF("defaction"),
              IntF("location") >>
      [] t = "Alias" -> << StrF("aliasname"), RepF("colnames") >>
      [] t = "CollateClause" -> << MsgF("arg"), RepF("collname"), IntF("location") >>
      [] t = "AExpr" ->
           << EnumF("kind"), RepF("name"), MsgF("lexpr"), MsgF("rexpr"), IntF("location") >>
      [] t = "WindowDef" ->
           << StrF("name"), StrF("refname"), RepF("partition_clause"), RepF("order_clause"),
              IntF("frame_options"), MsgF("start_offset"), MsgF("end_offset"),
              IntF("location") >>
      [] t = "Boolean" -> << BoolF("boolval") >>
      [] t = "AStar" -> << >>
      [] t = "FuncCall" ->
           << RepF("funcname"), RepF("args"), RepF("agg_order"), MsgF("agg_filter"),
              MsgF("over"), BoolF("agg_within_group"), BoolF("agg_star"),
              BoolF("agg_distinct"), BoolF("func_variadic"), EnumF("funcformat"),
              IntF("location") >>
      [] t = "SqlvalueFunction" ->
           << MsgF("xpr"), EnumF("op"), UintF("type"), IntF("typmod"), IntF("location") >>
      [] t = "SortBy" ->
           << MsgF("node"), EnumF("sortby_dir"), EnumF("sortby_nulls"), RepF("use_op"),
              IntF("location") >>
      [] t = "AConst" ->
           << MsgF("ival"), MsgF("fval"), MsgF("boolval"), MsgF("sval"), MsgF("bsval"),
              BoolF("isnull"), IntF("location") >>
      [] t = "AlterTableStmt" ->
           << MsgF("relation"), RepF("cmds"), EnumF("objtype"), BoolF("missing_ok") >>
      [] t = "AlterTableCmd" ->
           << EnumF("subtype"), StrF("name"), IntF("num"), MsgF("newowner"), MsgF("def"),
              EnumF("behavior"), BoolF("missing_ok"), BoolF("recurse") >>
      [] t = "VariableSetStmt" ->
           << EnumF("kind"), StrF("name"), RepF("args"), BoolF("is_local") >>
      [] t = "CreatePolicyStmt" ->
           << StrF("policy_name"), MsgF("table"), StrF("cmd_name"), BoolF("permissive"),
              RepF("roles"), MsgF("qual"), MsgF("with_check") >>
      [] t = "CopyStmt" ->
           << MsgF("relation"), MsgF("query"), RepF("attlist"), BoolF("is_from"),
              BoolF("is_program"), StrF("filename"), RepF("options"), MsgF("where_clause") >>
      [] t = "RenameStmt" ->
           << EnumF("rename_type"), EnumF("relation_type"), MsgF("relation"), MsgF("object"),
              StrF("subname"), StrF("newname"), EnumF("behavior"), BoolF("missing_ok") >>
      [] t = "Constraint" ->
           << EnumF("contype"), StrF("conname"), BoolF("deferrable"), BoolF("initdeferred"),
              IntF("location"), BoolF("is_no_inherit"), MsgF("raw_expr"),
              StrF("cooked_expr"), StrF("generated_when"), RepF("keys"), RepF("including"),
              RepF("exclusions"), RepF("options"), StrF("indexname"), StrF("indexspace"),
              BoolF("reset_default_tblspc"), StrF("access_method"), MsgF("where_clause"),
              MsgF("pktable"), RepF("fk_attrs"), RepF("pk_attrs"), StrF("fk_matchtype"),
              StrF("fk_upd_action"), StrF("fk_del_action"), RepF("fk_del_set_cols"),
              RepF("old_conpfeqop"), UintF("old_pktable_oid"), BoolF("skip_validation"),
              BoolF("initially_valid") >>
      [] t = "PartitionSpec" ->
           << StrF("strategy"), RepF("part_params"), IntF("location") >>
      [] t = "InsertStmt" ->
           << MsgF("relation"), RepF("cols"), MsgF("select_stmt"),
              MsgF("on_conflict_clause"), RepF("returning_list"), MsgF("with_clause"),
              EnumF("override") >>
      [] t = "DeleteStmt" ->
           << MsgF("relation"), RepF("using_clause"), MsgF("where_clause"),
              RepF("returning_list"), MsgF("with_clause") >>
      [] t = "ViewStmt" ->
           << MsgF("view"), RepF("aliases"), MsgF("query"), BoolF("replace"), RepF("options"),
              EnumF("with_check_option") >>
      [] t = "CreateStmt" ->
           << MsgF("relation"), RepF("table_elts"), RepF("inh_relations"),
              MsgF("partbound"), MsgF("partspec"), MsgF("of_typename"),
              RepF("constraints"), RepF("options"), EnumF("oncommit"),
              StrF("tablespacename"), StrF("access_method"), BoolF("if_not_exists") >>
      [] t = "PartitionBoundSpec" ->
           << StrF("strategy"), BoolF("is_default"), IntF("modulus"), IntF("remainder"),
              RepF("listdatums"), RepF("lowerdatums"), RepF("upperdatums"),
              IntF("location") >>
      [] t = "CaseExpr" ->
           << MsgF("xpr"), UintF("casetype"), UintF("casecollid"), MsgF("arg"), RepF("args"),
              MsgF("defresult"), IntF("location") >>
      [] t = "NullTest" ->
           << MsgF("xpr"), MsgF("arg"), EnumF("nulltesttype"), BoolF("argisrow"),
              IntF("location") >>
      [] t = "CreateFunctionStmt" ->
           << BoolF("is_procedure"), BoolF("replace"), RepF("funcname"), RepF("parameters"),
              MsgF("return_type"), RepF("options"), MsgF("sql_body") >>
      [] t = "FunctionParameter" ->
           << StrF("name"), MsgF("arg_type"), EnumF("mode"), MsgF("defexpr") >>
      [] t = "NamedArgExpr" ->
           << MsgF("xpr"), MsgF("arg"), StrF("name"), IntF("argnumber"), IntF("location") >>
      [] t = "CaseWhen" -> << MsgF("xpr"), MsgF("expr"), MsgF("result"), IntF("location") >>
      [] t = "TypeCast" -> << MsgF("arg"), MsgF("type_name"), IntF("location") >>

\* the node names with an arm in custom_handlers
RuleTable ==
    { "SelectStmt", "BoolExpr", "JoinExpr", "ResTarget", "Integer", "DefElem",
      "Alias", "CollateClause", "AExpr", "WindowDef", "Boolean", "AStar",
      "FuncCall", "SqlvalueFunction", "SortBy", "AConst", "AlterTableStmt",
      "AlterTableCmd", "VariableSetStmt", "CreatePolicyStmt", "CopyStmt",
      "RenameStmt", "Constraint", "PartitionSpec", "InsertStmt", "DeleteStmt",
      "ViewStmt", "CreateStmt", "PartitionBoundSpec", "CaseExpr", "NullTest",
      "CreateFunctionStmt", "FunctionParameter", "NamedArgExpr", "CaseWhen",
      "TypeCast" }

(***************************************************************************)
(* Node instances: the fields the generated arm reads (the fields of the   *)
(* custom rule and the non-repeated string fields of the descriptor).      *)
(***************************************************************************)
Lists == { [i \in 1..k |-> "Node"] : k \in 0..MaxList }
Opts == { None, Some("Node") }
Discr == -1..MaxDiscr
Texts == { <<>>, Foo }
Ivals == { -12, 0, 7, 305 }

\* the elements of FuncCall.funcname: Node { node: Option<NodeEnum> }
NameNodes ==
    { [node |-> None],
      [node |-> Some([type |-> "String", sval |-> Count])],
      [node |-> Some([type |-> "String", sval |-> Foo])],
      [node |-> Some([type |-> "String", sval |-> <<"C","o","u","n","t">>])],
      [node |-> Some([type |-> "Integer", ival |-> 7])] }
NameLists == UNION { [1..k -> NameNodes] : k \in 0..MaxFuncname }

Instances(t) ==
    CASE t = "SelectStmt" ->
           [type : {t}, distinct_clause : Lists, values_lists : Lists,
            from_clause : Lists, where_clause : Opts, group_clause : Lists]
      [] t = "BoolExpr" -> [type : {t}, boolop : Discr]
      [] t = "JoinExpr" -> [type : {t}, jointype : Discr]
      [] t = "ResTarget" -> [type : {t}, name : Texts]
      [] t = "Integer" -> [type : {t}, ival : Ivals]
      [] t = "DefElem" ->
           [type : {t}, defnamespace : Texts, defname : Texts, defaction : Discr]
      [] t = "Alias" -> [type : {t}, aliasname : Texts]
      [] t = "CollateClause" -> [type : {t}]
      [] t = "AExpr" -> [type : {t}, kind : Discr]
      [] t = "WindowDef" ->
           [type : {t}, name : Texts, refname : Texts, partition_clause : Lists,
            order_clause : Lists]
      [] t = "Boolean" -> [type : {t}, boolval : BOOLEAN]
      [] t = "AStar" -> [type : {t}]
      [] t = "FuncCall" ->
           [type : {t}, funcname : NameLists, args : Lists, agg_filter : Opts,
            over : Opts]
      [] t = "SqlvalueFunction" -> [type : {t}, op : Discr]
      [] t = "SortBy" -> [type : {t}, sortby_dir : Discr]
      [] t = "AConst" -> [type : {t}, isnull : BOOLEAN]
      [] t = "AlterTableStmt" -> [type : {t}]
      [] t = "AlterTableCmd" -> [type : {t}, subtype : Discr, name : Texts]
      [] t = "VariableSetStmt" -> [type : {t}, kind : Discr, name : Texts]
      [] t = "CreatePolicyStmt" ->
           [type : {t}, policy_name : Texts, cmd_name : Texts, roles : Lists,
            qual : Opts, with_check : Opts]
      [] t = "CopyStmt" -> [type : {t}, filename : Texts]
      [] t = "RenameStmt" -> [type : {t}, subname : Texts, newname : Texts]
      [] t = "Constraint" ->
           [type : {t}, contype : Discr, conname : Texts, cooked_expr : Texts,
            generated_when : Texts, indexname : Texts, indexspace : Texts,
            access_method : Texts, fk_matchtype : Texts, fk_upd_action : Texts,
            fk_del_action : Texts]
      [] t = "PartitionSpec" -> [type : {t}, strategy : Texts]
      [] t = "InsertStmt" -> [type : {t}]
      [] t = "DeleteStmt" -> [type : {t}, where_clause : Opts, using_clause : Lists]
      [] t = "ViewStmt" -> [type : {t}, query : Opts, replace : BOOLEAN]
      [] t = "CreateStmt" ->
           [type : {t}, tablespacename : Texts, access_method : Texts,
            options : Lists, if_not_exists : BOOLEAN, partbound : Opts]
      [] t = "PartitionBoundSpec" -> [type : {t}, strategy : Texts]
      [] t = "CaseExpr" -> [type : {t}, defresult : Opts]
      [] t = "NullTest" -> [type : {t}, nulltesttype : Discr]
      [] t = "CreateFunctionStmt" ->
           [type : {t}, replace : BOOLEAN, return_type : Opts]
      [] t = "FunctionParameter" ->
           [type : {t}, name : Texts, mode : Discr, defexpr : Opts]
      [] t = "NamedArgExpr" -> [type : {t}, name : Texts]
      [] t = "CaseWhen" -> [type : {t}]
      [] t = "TypeCast" -> [type : {t}]

(***************************************************************************)
(* A node type outside the rule table (the `_ => quote! {}` arm): its      *)
(* descriptor is any field list, its instance any values of those fields.  *)
(***************************************************************************)
Chars == { "F", "o" }
GenTexts == UNION { [1..k -> Chars] : k \in 0..MaxLen }

\* a field of a descriptor together with the value the instance holds
FieldChoices ==
    UNION { { [field_type |-> "String", repeated |-> FALSE, val |-> x] : x \in GenTexts },
            { [field_type |-> "String", repeated |-> TRUE, val |-> x] : x \in { <<>>, <<Foo>> } },
            { [field_type |-> "Int32", repeated |-> FALSE, val |-> 7] },
            { [field_type |-> "Bool", repeated |-> FALSE, val |-> TRUE] },
            { [field_type |-> "Node", repeated |-> FALSE, val |-> Some("Node")] },
            { [field_type |-> "Node", repeated |-> TRUE, val |-> <<"Node">>] } }

FieldName(i) ==
    CASE i = 1 -> "f1" [] i = 2 -> "f2" [] i = 3 -> "f3" [] i = 4 -> "f4"
      [] OTHER -> "f5"

UnlistedFields(cs) ==
    [i \in 1..Len(cs) |-> Fld(FieldName(i), cs[i].field_type, cs[i].repeated)]

UnlistedNode(cs) ==
    [x \in {"type"} \cup { FieldName(i) : i \in 1..Len(cs) } |->
        IF x = "type" THEN "Unlisted"
        ELSE cs[CHOOSE i \in 1..Len(cs) : FieldName(i) = x].val]

(***************************************************************************)
(* syntax_kind_mod: the SyntaxKind enumeration                             *)
(***************************************************************************)
custom_node_names ==
    << "SourceFile", "Comment", "Whitespace", "Newline", "Tab", "Stmt" >>

Elems(s) == { s[i] : i \in 1..Len(s) }

RECURSIVE Filter(_, _)
\* the elements of s whose name is not in the set existing, in order
Filter(s, existing) ==
    IF s = <<>> THEN <<>>
    ELSE IF Head(s).name \in existing THEN Filter(Tail(s), existing)
         ELSE <<Head(s)>> \o Filter(Tail(s), existing)

node_names(nodes) == [i \in 1..Len(nodes) |-> nodes[i].name]

custom_node_identifiers(names) == names

\* mutant: the node names are not filtered against the synthetic names
node_identifiers_unfiltered(nodes, existing_enum_names) ==
    [i \in 1..Len(nodes) |-> nodes[i].name]

node_identifiers(nodes, existing_enum_names) ==
    LET kept == Filter(nodes, existing_enum_names)
    IN  [i \in 1..Len(kept) |-> kept[i].name]

\* mutant: the token names are not filtered against the names already taken
token_identifiers_unfiltered(toks, existing_enum_names) ==
    [i \in 1..Len(toks) |-> toks[i].name]

RECURSIVE Dedup(_, _)
Dedup(s, seen) ==
    IF s = <<>> THEN <<>>
    ELSE IF Head(s) \in seen THEN Dedup(Tail(s), seen)
         ELSE <<Head(s)>> \o Dedup(Tail(s), seen \cup {Head(s)})

\* mutant: a token name is emitted once however often it is declared
token_identifiers_dedup(toks, existing_enum_names) ==
    LET kept == Filter(toks, existing_enum_names)
    IN  Dedup([i \in 1..Len(kept) |-> kept[i].name], {})

token_identifiers(toks, existing_enum_names) ==
    LET kept == Filter(toks, existing_enum_names)
    IN  [i \in 1..Len(kept) |-> kept[i].name]

token_value_literals(toks, existing_enum_names) ==
    LET kept == Filter(toks, existing_enum_names)
    IN  [i \in 1..Len(kept) |-> kept[i].value]

\* the identifier lists syntax_kind_mod splices into `pub enum SyntaxKind`
syntax_kind_mod(nodes, toks) ==
    LET names0 == Elems(custom_node_names)
        names1 == names0 \cup Elems(node_names(nodes))
    IN  [custom_node_identifiers |-> custom_node_identifiers(custom_node_names),
         node_identifiers |-> node_identifiers(nodes, names0),
         token_identifiers |-> token_identifiers(toks, names1),
         token_value_literals |-> token_value_literals(toks, names1)]

\* the variants of the emitted enum, in declaration order
Variants(sk) ==
    sk.custom_node_identifiers \o sk.node_identifiers \o sk.token_identifiers

NoDup(s) == \A i, j \in 1..Len(s) : s[i] = s[j] => i = j

\* whether the emitted `pub enum SyntaxKind { #(..),*, #(..),*, #(..),*, }`
\* is an enum the compiler accepts: every repetition is followed by a
\* literal comma, so none may be empty, and no variant may be defined twice
EnumCompiles(sk) ==
    /\ Len(sk.custom_node_identifiers) > 0
    /\ Len(sk.node_identifiers) > 0
    /\ Len(sk.token_identifiers) > 0
    /\ NoDup(Variants(sk))

(***************************************************************************)
(* syntax_kind_impl: the two classifiers emitted next to the enum          *)
(***************************************************************************)
\* the variants of pg_query's NodeEnum: one per node of the proto file
NodeEnum(nodes) == Elems(node_names(nodes))

\* the arms `NodeEnum::#id(_) => SyntaxKind::#id` of new_from_pg_query_node
new_from_pg_query_node_fn(ids) == [i \in 1..Len(ids) |-> [pat |-> ids[i], kind |-> ids[i]]]

\* the arms `#literal => SyntaxKind::#id` of new_from_pg_query_token; the
\* two lists are zipped by the repetition
new_from_pg_query_token_fn(ids, literals) ==
    [i \in 1..Len(ids) |-> [pat |-> literals[i], kind |-> ids[i]]]

\* a match expression: the first arm whose pattern is the scrutinee
FirstArm(arms, x) ==
    CHOOSE i \in 1..Len(arms) :
        /\ arms[i].pat = x
        /\ \A j \in 1..(i - 1) : arms[j].pat # x
HasArm(arms, x) == \E i \in 1..Len(arms) : arms[i].pat = x

\* new_from_pg_query_node has no default arm: the compiler accepts the match
\* only when every variant of NodeEnum has an arm
syntax_kind_impl(sk, nodes) ==
    \A v \in NodeEnum(nodes) :
        HasArm(new_from_pg_query_node_fn(sk.node_identifiers), v)

\* the generated SyntaxKind::new_from_pg_query_node, on an instance of the
\* variant v (called only in a build the compiler accepted)
new_from_pg_query_node(sk, v) ==
    LET arms == new_from_pg_query_node_fn(sk.node_identifiers)
    IN  Returned(arms[FirstArm(arms, v)].kind)

\* the generated SyntaxKind::new_from_pg_query_token, on a ScanToken whose
\* token field is code
new_from_pg_query_token(sk, code) ==
    LET arms == new_from_pg_query_token_fn(sk.token_identifiers,
                                           sk.token_value_literals)
    IN  IF HasArm(arms, code) THEN Returned(arms[FirstArm(arms, code)].kind)
        ELSE Panicked

(***************************************************************************)
(* Grammar descriptor inputs of syntax_kind_mod                            *)
(***************************************************************************)
NodeNameSet == { "Comment", "SelectStmt", "String" }
TokenNameSet == { "Comment", "SelectStmt", "Select" }
TokenCodes == { 42, 258 }
NodeLists == UNION { [1..k -> [name : NodeNameSet]] : k \in 0..MaxNodes }
TokenLists ==
    UNION { [1..k -> [name : TokenNameSet, value : TokenCodes]] : k \in 0..MaxTokens }

NoKind == [custom_node_identifiers |-> <<>>, node_identifiers |-> <<>>,
           token_identifiers |-> <<>>, token_value_literals |-> <<>>]
NoNode == [type |-> "None"]
NoCall == [fn |-> "none"]
NoRet == [panic |-> FALSE, res |-> <<>>]
\* the codes a ScanToken can carry: the declared ones and one more
ScanCodes == TokenCodes \cup { 999 }

(***************************************************************************)
(* Derivation: one call of the generated get_node_properties               *)
(***************************************************************************)
InitDerive ==
    /\ \/ \E t \in RuleTable :
            /\ node \in Instances(t)
            /\ fields = NodeFields(t)
       \/ \E k \in 0..MaxFields : \E cs \in [1..k -> FieldChoices] :
            /\ node = UnlistedNode(cs)
            /\ fields = UnlistedFields(cs)
    /\ tokens = <<>>
    /\ proto_nodes = <<>>
    /\ proto_tokens = <<>>
    /\ syntax_kind = NoKind
    /\ arg = NoCall
    /\ ret = NoRet
    /\ pc = "start"

GetNodeProperties ==
    /\ pc = "start"
    /\ node.type # "None"
    /\ LET r == get_node_properties(fields, node)
       IN  /\ tokens' = r.toks
           /\ pc' = IF r.panic THEN "panic" ELSE "done"
    /\ UNCHANGED <<node, fields, proto_nodes, proto_tokens, syntax_kind, arg, ret>>

NextDerive == GetNodeProperties

SpecDerive == InitDerive /\ [][NextDerive]_vars

(***************************************************************************)
(* Registry: one expansion of the syntax_kind macro                        *)
(***************************************************************************)
InitRegistry ==
    /\ proto_nodes \in NodeLists
    /\ proto_tokens \in TokenLists
    /\ syntax_kind = NoKind
    /\ node = NoNode
    /\ fields = <<>>
    /\ tokens = <<>>
    /\ arg = NoCall
    /\ ret = NoRet
    /\ pc = "start"

SyntaxKindMod ==
    /\ pc = "start"
    /\ LET sk == syntax_kind_mod(proto_nodes, proto_tokens)
       IN  /\ syntax_kind' = sk
           /\ pc' = IF EnumCompiles(sk) /\ syntax_kind_impl(sk, proto_nodes)
                    THEN "built" ELSE "rejected"
    /\ UNCHANGED <<node, fields, tokens, proto_nodes, proto_tokens, arg, ret>>

NextRegistry == SyntaxKindMod

SpecRegistry == InitRegistry /\ [][NextRegistry]_vars

(***************************************************************************)
(* Classification: the macro expands, then the classifiers are called      *)
(***************************************************************************)
NewFromPgQueryNode ==
    /\ pc = "built"
    /\ \E v \in NodeEnum(proto_nodes) :
          /\ arg' = [fn |-> "new_from_pg_query_node", node |-> v]
          /\ ret' = new_from_pg_query_node(syntax_kind, v)
    /\ UNCHANGED <<node, fields, tokens, proto_nodes, proto_tokens, syntax_kind, pc>>

NewFromPgQueryToken ==
    /\ pc = "built"
    /\ \E code \in ScanCodes :
          LET r == new_from_pg_query_token(syntax_kind, code)
          IN  /\ arg' = [fn |-> "new_from_pg_query_token", token |-> code]
              /\ ret' = r
              /\ pc' = IF r.panic THEN "panic" ELSE "built"
    /\ UNCHANGED <<node, fields, tokens, proto_nodes, proto_tokens, syntax_kind>>

NextClassify == SyntaxKindMod \/ NewFromPgQueryNode \/ NewFromPgQueryToken

SpecClassify == InitRegistry /\ [][NextClassify]_vars

(***************************************************************************)
(* Conversions: one call of TokenProperty::new or of a From<..> impl       *)
(***************************************************************************)
\* the arguments the calls are made with
Spellings == { None } \cup { Some(t) : t \in GenTexts }
KindNames == { "Select", "Ascii42", "SelectStmt" }
Kinds == { None } \cup { Some(k) : k \in KindNames }
I32s == Ivals \cup { 2147483647 }
U32s == { 0, 7, 305 }
I64s == Ivals
U64s == { 0, 42 }
F64s == { [class |-> "finite", neg |-> FALSE, whole |-> 0, frac |-> <<>>],
          [class |-> "finite", neg |-> TRUE, whole |-> 0, frac |-> <<>>],
          [class |-> "finite", neg |-> FALSE, whole |-> 1, frac |-> <<5>>],
          [class |-> "finite", neg |-> TRUE, whole |-> 12, frac |-> <<2, 5>>],
          [class |-> "nan", neg |-> FALSE, whole |-> 0, frac |-> <<>>],
          [class |-> "inf", neg |-> FALSE, whole |-> 0, frac |-> <<>>],
          [class |-> "inf", neg |-> TRUE, whole |-> 0, frac |-> <<>>] }
IntegerNodes == [type : {"Integer"}, ival : Ivals]
BooleanNodes == [type : {"Boolean"}, boolval : BOOLEAN]

InitConvert ==
    /\ \/ \E v \in Spellings, k \in Kinds : arg = [fn |-> "new", value |-> v, kind |-> k]
       \/ \E x \in I32s : arg = [fn |-> "from_i32", int |-> x]
       \/ \E x \in U32s : arg = [fn |-> "from_u32", int |-> x]
       \/ \E x \in I64s : arg = [fn |-> "from_i64", int |-> x]
       \/ \E x \in U64s : arg = [fn |-> "from_u64", int |-> x]
       \/ \E x \in F64s : arg = [fn |-> "from_f64", float |-> x]
       \/ \E x \in BOOLEAN : arg = [fn |-> "from_bool", bool |-> x]
       \/ \E x \in GenTexts : arg = [fn |-> "from_String", text |-> x]
       \/ \E x \in IntegerNodes : arg = [fn |-> "from_Integer", leaf |-> x]
       \/ \E x \in BooleanNodes : arg = [fn |-> "from_Boolean", leaf |-> x]
       \/ \E x \in KindNames : arg = [fn |-> "from_SyntaxKind", name |-> x]
       \/ \E x \in KindNames : arg = [fn |-> "from_Token", name |-> x]
    /\ ret = NoRet
    /\ node = NoNode
    /\ fields = <<>>
    /\ tokens = <<>>
    /\ proto_nodes = <<>>
    /\ proto_tokens = <<>>
    /\ syntax_kind = NoKind
    /\ pc = "start"

\* a call ends by returning or by panicking
Call(fn, r) ==
    /\ pc = "start"
    /\ arg.fn = fn
    /\ ret' = r
    /\ pc' = IF r.panic THEN "panic" ELSE "done"
    /\ UNCHANGED <<node, fields, tokens, proto_nodes, proto_tokens, syntax_kind, arg>>

TokenPropertyNew ==
    /\ arg.fn = "new"
    /\ Call("new", TokenProperty_new(arg.value, arg.kind))

FromI32 == arg.fn = "from_i32" /\ Call("from_i32", Returned(from_i32(arg.int)))

FromU32 == arg.fn = "from_u32" /\ Call("from_u32", Returned(from_u32(arg.int)))

FromI64 == arg.fn = "from_i64" /\ Call("from_i64", Returned(from_i64(arg.int)))

FromU64 == arg.fn = "from_u64" /\ Call("from_u64", Returned(from_u64(arg.int)))

FromF64 == arg.fn = "from_f64" /\ Call("from_f64", Returned(from_f64(arg.float)))

FromBool == arg.fn = "from_bool" /\ Call("from_bool", Returned(from_bool(arg.bool)))

FromStringCall ==
    arg.fn = "from_String" /\ Call("from_String", from_String(arg.text))

FromIntegerLeaf ==
    arg.fn = "from_Integer" /\ Call("from_Integer", Returned(FromInteger(arg.leaf)))

FromBooleanLeaf ==
    arg.fn = "from_Boolean" /\ Call("from_Boolean", Returned(FromBoolean(arg.leaf)))

FromSyntaxKind ==
    arg.fn = "from_SyntaxKind" /\ Call("from_SyntaxKind", Returned(from_SyntaxKind(arg.name)))

FromTokenCall ==
    arg.fn = "from_Token" /\ Call("from_Token", Returned(FromToken(arg.name)))

NextConvert ==
    \/ TokenPropertyNew
    \/ FromI32
    \/ FromU32
    \/ FromI64
    \/ FromU64
    \/ FromF64
    \/ FromBool
    \/ FromStringCall
    \/ FromIntegerLeaf
    \/ FromBooleanLeaf
    \/ FromSyntaxKind
    \/ FromTokenCall

SpecConvert == InitConvert /\ [][NextConvert]_vars

(***************************************************************************)
(* Every way a TokenProperty comes to be: a conversion or a derivation     *)
(***************************************************************************)
InitTokenProperty == InitDerive \/ InitConvert

NextTokenProperty == NextDerive \/ NextConvert

SpecTokenProperty == InitTokenProperty /\ [][NextTokenProperty]_vars

(***************************************************************************)
(* Properties of get_node_properties (SpecDerive)                          *)
(***************************************************************************)
Kw(name) == [value |-> None, kind |-> Some(name)]
Called == pc # "start"

\* the discriminant field each discriminated rule matches on
Discriminant(n) ==
    CASE n.type = "BoolExpr" -> n.boolop
      [] n.type = "JoinExpr" -> n.jointype
      [] n.type = "AExpr" -> n.kind
      [] n.type = "SqlvalueFunction" -> n.op
      [] n.type = "VariableSetStmt" -> n.kind
      [] n.type = "FunctionParameter" -> n.mode
      [] n.type = "NullTest" -> n.nulltesttype
      [] n.type = "Constraint" -> n.contype
      [] n.type = "AlterTableCmd" -> n.subtype
      [] n.type = "DefElem" -> n.defaction
      [] n.type = "SortBy" -> n.sortby_dir

\* the legal discriminant values the grammar documents, for the node types
\* whose range the rule table's comments give
LegalDiscr(t) ==
    CASE t = "BoolExpr" -> 1..3
      [] t = "JoinExpr" -> 1..8
      [] t = "AExpr" -> 1..14
      [] t = "SqlvalueFunction" -> 1..15
      [] t = "VariableSetStmt" -> 1..6
      [] t = "FunctionParameter" -> 1..6
      [] t = "NullTest" -> 1..2

RangedTypes ==
    { "BoolExpr", "JoinExpr", "AExpr", "SqlvalueFunction", "VariableSetStmt",
      "FunctionParameter", "NullTest" }

\* C1: deriving a discriminated node that carries any legal discriminant
\* value reaches a rule-table case and raises no coverage error.
C1_Exhaustive ==
    (Called /\ node.type \in RangedTypes
            /\ Discriminant(node) \in LegalDiscr(node.type))
        => pc = "done"

\* the discriminant values with an explicit arm in each discriminated rule
ExplicitCases(t) ==
    CASE t = "BoolExpr" -> {1, 2, 3}
      [] t = "JoinExpr" -> {1, 2, 3, 4}
      [] t = "AExpr" -> {1, 2, 7}
      [] t = "SqlvalueFunction" -> {10, 11}
      [] t = "VariableSetStmt" -> {1}
      [] t = "FunctionParameter" -> {1, 2, 3, 4, 6}
      [] t = "NullTest" -> {1, 2}
      [] t = "Constraint" -> {2, 3, 6, 7, 10}
      [] t = "AlterTableCmd" -> {4, 19, 30}
      [] t = "DefElem" -> {1}
      [] t = "SortBy" -> {2, 3}

DiscriminatedTypes ==
    RangedTypes \cup { "Constraint", "AlterTableCmd", "DefElem", "SortBy" }

\* C2: in every discriminated-keyword rule a discriminant value without an
\* explicit case makes the derivation fail; none returns a token sequence.
C2_UnrecognizedIsFatal ==
    (Called /\ node.type \in DiscriminatedTypes
            /\ Discriminant(node) \notin ExplicitCases(node.type))
        => pc = "panic"

\* C3: the derived sequence is the custom rule's tokens followed by the
\* generic string-field tokens, and nothing else; a pass that fails fails
\* the whole derivation.
C3_CustomThenGeneric ==
    Called =>
        LET c == custom_handlers(node)
            g == string_property_handlers(fields, node)
        IN  IF c.panic \/ g.panic
            THEN pc = "panic"
            ELSE /\ pc = "done"
                 /\ Len(tokens) = Len(c.toks) + Len(g.toks)
                 /\ \A i \in 1..Len(c.toks) : tokens[i] = c.toks[i]
                 /\ \A i \in 1..Len(g.toks) : tokens[Len(c.toks) + i] = g.toks[i]

C3_Witness ==
    /\ pc = "done"
    /\ node.type = "ResTarget"
    /\ node.name = Foo
    /\ tokens = << Kw("As"), [value |-> Some(<<"f","o","o">>), kind |-> None] >>

\* the descriptor positions the generic pass emits for
Qualifying(fs, n) ==
    { i \in 1..Len(fs) : /\ fs[i].field_type = "String"
                         /\ ~fs[i].repeated
                         /\ n[fs[i].name] # <<>> }
Rank(Q, i) == Cardinality({ j \in Q : j <= i })

\* C4: after the custom rule's tokens the derivation holds exactly one
\* property (lower-cased spelling, no kind) per non-repeated, non-empty
\* string field, in declared field order, and nothing for any other field.
C4_GenericPass ==
    (Called /\ ~custom_handlers(node).panic) =>
        LET k == Len(custom_handlers(node).toks)
            Q == Qualifying(fields, node)
        IN  /\ pc = "done"
            /\ Len(tokens) = k + Cardinality(Q)
            /\ \A i \in Q :
                 /\ tokens[k + Rank(Q, i)].kind = None
                 /\ tokens[k + Rank(Q, i)].value
                      = Some(to_lowercase(node[fields[i].name]))
                 /\ \A c \in Elems(tokens[k + Rank(Q, i)].value[1]) :
                      c \notin { "F", "C", "O" }

C4_Witness ==
    /\ pc = "done"
    /\ node.type = "Unlisted"
    /\ Len(fields) = 3
    /\ fields[1].field_type = "String" /\ fields[1].repeated /\ node.f1 # <<>>
    /\ fields[2].field_type = "String" /\ ~fields[2].repeated /\ node.f2 = <<>>
    /\ fields[3].field_type = "String" /\ ~fields[3].repeated
    /\ node.f3 = <<"F","o">>
    /\ tokens = << [value |-> Some(<<"f","o">>), kind |-> None] >>

KwIf(cond, names) == IF cond THEN [i \in 1..Len(names) |-> Kw(names[i])] ELSE <<>>

\* C5: a SelectStmt yields SELECT, then DISTINCT, VALUES, FROM, WHERE and
\* GROUP BY, each iff its clause is present, in this order; [SELECT] with
\* no clause and [SELECT, FROM] with only a from clause.
C5_SelectStmt ==
    (Called /\ node.type = "SelectStmt") =>
        /\ pc = "done"
        /\ tokens = <<Kw("Select")>>
                    \o KwIf(node.distinct_clause # <<>>, <<"Distinct">>)
                    \o KwIf(node.values_lists # <<>>, <<"Values">>)
                    \o KwIf(node.from_clause # <<>>, <<"From">>)
                    \o KwIf(node.where_clause # None, <<"Where">>)
                    \o KwIf(node.group_clause # <<>>, <<"GroupP", "By">>)
        /\ (node.group_clause # <<>>) <=>
             \E i \in 1..(Len(tokens) - 1) :
                tokens[i] = Kw("GroupP") /\ tokens[i + 1] = Kw("By")
        /\ ( /\ node.distinct_clause = <<>> /\ node.values_lists = <<>>
             /\ node.where_clause = None /\ node.group_clause = <<>> ) =>
               IF node.from_clause = <<>>
               THEN tokens = << Kw("Select") >>
               ELSE tokens = << Kw("Select"), Kw("From") >>

C5_Witness ==
    /\ pc = "done"
    /\ node.type = "SelectStmt"
    /\ node.from_clause # <<>>
    /\ node.values_lists # <<>>
    /\ node.group_clause # <<>>
    /\ tokens = << Kw("Select"), Kw("Values"), Kw("From"), Kw("GroupP"), Kw("By") >>

\* C6: a BoolExpr yields [AND] for boolop 1, [OR] for 2, [NOT] for 3 and
\* fails for every other boolop, 0 included.
C6_BoolExpr ==
    (Called /\ node.type = "BoolExpr") =>
        CASE node.boolop = 1 -> pc = "done" /\ tokens = << Kw("And") >>
          [] node.boolop = 2 -> pc = "done" /\ tokens = << Kw("Or") >>
          [] node.boolop = 3 -> pc = "done" /\ tokens = << Kw("Not") >>
          [] OTHER -> pc = "panic"

C6_Witness ==
    /\ node.type = "BoolExpr"
    /\ node.boolop = 0
    /\ pc = "panic"

\* the first position of a keyword in a sequence, 0 when absent
Pos(ts, name) ==
    IF \E i \in 1..Len(ts) : ts[i] = Kw(name)
    THEN CHOOSE i \in 1..Len(ts) :
            ts[i] = Kw(name) /\ \A j \in 1..(i - 1) : ts[j] # Kw(name)
    ELSE 0
Before(ts, a, b) == Pos(ts, a) > 0 /\ (Pos(ts, b) > 0 => Pos(ts, a) < Pos(ts, b))

JoinKeywords == { "InnerP", "Left", "Full", "Right" }

\* C7: the derived keywords are in source order: the join type before JOIN
\* before ON; CREATE OR REPLACE VIEW AS; CASE ELSE END; IF NOT EXISTS
\* before any WITH or TABLESPACE.
C7_SourceOrder ==
    (pc = "done") =>
        /\ node.type = "JoinExpr" =>
             \E k \in JoinKeywords :
                /\ Pos(tokens, k) > 0
                /\ Pos(tokens, k) < Pos(tokens, "Join")
                /\ Pos(tokens, "Join") < Pos(tokens, "On")
        /\ (node.type = "ViewStmt" /\ node.replace /\ node.query # None) =>
             tokens = << Kw("Create"), Kw("Or"), Kw("Replace"), Kw("View"), Kw("As") >>
        /\ (node.type = "CaseExpr" /\ node.defresult # None) =>
             tokens = << Kw("Case"), Kw("Else"), Kw("EndP") >>
        /\ (node.type = "CreateStmt" /\ node.if_not_exists) =>
             /\ Before(tokens, "IfP", "With")
             /\ Before(tokens, "IfP", "Tablespace")
             /\ Before(tokens, "Exists", "With")
             /\ Before(tokens, "Exists", "Tablespace")

(***************************************************************************)
(* Properties of syntax_kind_mod (SpecRegistry)                            *)
(***************************************************************************)
Synthetic == Elems(custom_node_names)
NodeNames == Elems(node_names(proto_nodes))
TokenNames == { proto_tokens[i].name : i \in 1..Len(proto_tokens) }
Occurrences(s, x) == Cardinality({ i \in 1..Len(s) : s[i] = x })
TokenNameList == [i \in 1..Len(proto_tokens) |-> proto_tokens[i].name]

\* the Kind of a name: the position of its variant in the enum
KindOf(sk, name) == CHOOSE i \in 1..Len(Variants(sk)) :
                        /\ Variants(sk)[i] = name
                        /\ \A j \in 1..(i - 1) : Variants(sk)[j] # name

\* C8: when no list declares a name twice, the merged enumeration holds
\* every name of the three lists exactly once, whatever the overlap between
\* the lists, and the enumeration is a valid one whenever nodes and tokens
\* both contribute.
C8_RegistryUnique ==
    (Called /\ NoDup(node_names(proto_nodes)) /\ NoDup(TokenNameList)) =>
        LET v == Variants(syntax_kind)
        IN  /\ \A name \in Synthetic \cup NodeNames \cup TokenNames :
                 Occurrences(v, name) = 1
            /\ \A i, j \in 1..Len(v) : i # j => v[i] # v[j]
            /\ ( /\ Len(syntax_kind.node_identifiers) > 0
                 /\ Len(syntax_kind.token_identifiers) > 0 ) =>
                   EnumCompiles(syntax_kind)

C8_Witness ==
    /\ pc = "built"
    /\ NoDup(node_names(proto_nodes))
    /\ NoDup(TokenNameList)
    /\ NodeNames = { "SelectStmt", "String" }
    /\ TokenNames = { "Comment", "SelectStmt", "Select" }
    /\ Len(Variants(syntax_kind)) = Len(custom_node_names) + 3

\* C9: a name declared as node and as token gets no token entry and
\* resolves to the node's Kind (to the synthetic Kind when it is also a
\* synthetic name); a node name equal to a synthetic name gets no node
\* entry and resolves to the synthetic Kind.
C9_Priority ==
    Called =>
        LET nc == Len(syntax_kind.custom_node_identifiers)
            nn == Len(syntax_kind.node_identifiers)
        IN  /\ \A name \in NodeNames \cap TokenNames :
                 /\ name \notin Elems(syntax_kind.token_identifiers)
                 /\ KindOf(syntax_kind, name) <= nc + nn
                 /\ name \notin Synthetic =>
                      /\ Occurrences(syntax_kind.node_identifiers, name) >= 1
                      /\ KindOf(syntax_kind, name) > nc
            /\ \A name \in NodeNames \cap Synthetic :
                 /\ name \notin Elems(syntax_kind.node_identifiers)
                 /\ KindOf(syntax_kind, name) <= nc

C9_Witness ==
    /\ pc = "built"
    /\ proto_nodes[1].name = "SelectStmt"
    /\ "SelectStmt" \in TokenNames
    /\ "Select" \in TokenNames
    /\ KindOf(syntax_kind, "SelectStmt") = Len(custom_node_names) + 1
    /\ syntax_kind.token_identifiers = << "Select" >>

DeclaredTwice(s, name) == Occurrences(s, name) >= 2

TokenCodeList == [i \in 1..Len(proto_tokens) |-> proto_tokens[i].value]
TokenCall == arg.fn = "new_from_pg_query_token"
NodeCall == arg.fn = "new_from_pg_query_node"
\* the tokens of the lexical token list that carry the code of the call
Declared(code) == { i \in 1..Len(proto_tokens) : proto_tokens[i].value = code }

\* C11: new_from_pg_query_token is a total lookup over the declared token
\* codes: called with the code of a token of the token list (codes distinct
\* in the list) it returns the Kind the token's name resolves to in the
\* registry, and called with a code of no declared token it panics.
C11_TotalLookup ==
    (TokenCall /\ NoDup(TokenCodeList)) =>
        IF Declared(arg.token) = {}
        THEN ret.panic /\ pc = "panic"
        ELSE /\ ~ret.panic
             /\ \A i \in Declared(arg.token) :
                  KindOf(syntax_kind, ret.res[1]) =
                      KindOf(syntax_kind, proto_tokens[i].name)

\* the arms of the node classifier of the current expansion
NodeArms == new_from_pg_query_node_fn(syntax_kind.node_identifiers)

\* C12: whenever the descriptor yields a valid enumeration,
\* new_from_pg_query_node has a case for every variant of NodeEnum, the case
\* of the variant named N gives the Kind registered under the name N (also
\* when N is a synthetic name), two different variants never get the same
\* Kind, and a call returns that Kind.
C12_OneToOne ==
    /\ (Called /\ EnumCompiles(syntax_kind)) =>
          /\ \A v \in NodeEnum(proto_nodes) :
                /\ HasArm(NodeArms, v)
                /\ KindOf(syntax_kind, NodeArms[FirstArm(NodeArms, v)].kind) =
                       KindOf(syntax_kind, v)
          /\ \A v, w \in NodeEnum(proto_nodes) :
                (HasArm(NodeArms, v) /\ HasArm(NodeArms, w) /\ v # w) =>
                    NodeArms[FirstArm(NodeArms, v)].kind #
                        NodeArms[FirstArm(NodeArms, w)].kind
    /\ NodeCall =>
          /\ ~ret.panic
          /\ KindOf(syntax_kind, ret.res[1]) = KindOf(syntax_kind, arg.node)

(***************************************************************************)
(* Properties of TokenProperty and its conversions                         *)
(***************************************************************************)
\* C13: TokenProperty::new panics exactly when value and kind are both
\* absent; otherwise it returns the property holding the two given fields.
C13_New ==
    (Called /\ arg.fn = "new") =>
        IF arg.value = None /\ arg.kind = None
        THEN ret.panic /\ pc = "panic"
        ELSE /\ ~ret.panic
             /\ pc = "done"
             /\ ret.res[1].value = arg.value
             /\ ret.res[1].kind = arg.kind

\* new was called with the spelling alone and returned
C13_Witness ==
    /\ pc = "done"
    /\ arg.fn = "new"
    /\ arg.value # None
    /\ arg.kind = None
    /\ ret.res[1] = [value |-> arg.value, kind |-> None]

\* lo is the text t with its upper-case letters replaced by the lower-case ones
IsLowerCased(lo, t) ==
    /\ Len(lo) = Len(t)
    /\ \A i \in 1..Len(t) :
          lo[i] = ( CASE t[i] = "F" -> "f" [] t[i] = "C" -> "c"
                      [] t[i] = "O" -> "o" [] OTHER -> t[i] )

\* the non-repeated string fields of the node that hold the empty text
EmptyStringFields ==
    { i \in 1..Len(fields) :
        /\ fields[i].field_type = "String"
        /\ ~fields[i].repeated
        /\ node[fields[i].name] = <<>> }

\* C14: the conversion from text returns, for a non-empty text, the property
\* with the lower-cased text as spelling and no kind, and panics for the
\* empty text; the generic field pass never runs into this panic, whatever
\* the values of the node's string fields.
C14_FromText ==
    /\ (Called /\ arg.fn = "from_String") =>
          IF arg.text = <<>>
          THEN ret.panic /\ pc = "panic"
          ELSE /\ ~ret.panic
               /\ pc = "done"
               /\ ret.res[1].kind = None
               /\ is_some(ret.res[1].value)
               /\ IsLowerCased(ret.res[1].value[1], arg.text)
    /\ (Called /\ node.type = "Unlisted") => pc = "done"
    /\ (Called /\ node.type # "None") =>
          ~string_property_handlers(fields, node).panic

\* a node with an empty and with a populated string field was derived: only
\* the populated one gave a property, lower-cased
C14_Witness ==
    /\ pc = "done"
    /\ node.type = "Unlisted"
    /\ EmptyStringFields # {}
    /\ tokens = << [value |-> Some(<<"f", "o">>), kind |-> None] >>

(***************************************************************************)
(* Properties of the FuncCall rule (SpecDerive)                            *)
(***************************************************************************)
\* the function name is the single name "count" and no argument is given
CountStar(n) ==
    /\ Len(n.funcname) = 1
    /\ is_some(n.funcname[1].node)
    /\ n.funcname[1].node[1].type = "String"
    /\ n.funcname[1].node[1].sval = <<"c","o","u","n","t">>
    /\ n.args = <<>>

\* C15: for a FuncCall the wildcard marker Ascii42 is emitted exactly when
\* funcname has one element, a String node whose sval is "count", and args
\* is empty; it is then the first token; FILTER WHERE follow exactly when
\* agg_filter is present, and then OVER exactly when over is present.
C15_FuncCall ==
    (Called /\ node.type = "FuncCall") =>
        LET expected == KwIf(CountStar(node), <<"Ascii42">>) \o
                        KwIf(is_some(node.agg_filter), <<"Filter", "Where">>) \o
                        KwIf(is_some(node.over), <<"Over">>)
        IN  /\ pc = "done"
            /\ Len(tokens) >= Len(expected)
            /\ SubSeq(tokens, 1, Len(expected)) = expected
            /\ (Kw("Ascii42") \in Elems(tokens)) <=> CountStar(node)
            /\ CountStar(node) => tokens[1] = Kw("Ascii42")

\* count(*) filter (where ..) over (..) was derived
C15_Witness ==
    /\ pc = "done"
    /\ node.type = "FuncCall"
    /\ CountStar(node)
    /\ is_some(node.agg_filter)
    /\ is_some(node.over)
    /\ tokens = << Kw("Ascii42"), Kw("Filter"), Kw("Where"), Kw("Over") >>

(***************************************************************************)
(* The TokenProperty invariant (SpecTokenProperty)                         *)
(***************************************************************************)
Present(tp) == is_some(tp.value) \/ is_some(tp.kind)

\* C16: every TokenProperty returned by a conversion (from integers, float,
\* bool, text, SyntaxKind, Token, Integer leaf, Boolean leaf) and every
\* element of the sequence get_node_properties returns has its value or its
\* kind present.
C16_Invariant ==
    /\ (Called /\ arg.fn # "none" /\ ~ret.panic) =>
          /\ Len(ret.res) = 1
          /\ Present(ret.res[1])
    /\ \A i \in 1..Len(tokens) : Present(tokens[i])

\* a derivation returned a property with a kind only and one with a
\* spelling only
C16_Witness ==
    /\ pc = "done"
    /\ node.type # "None"
    /\ \E i, j \in 1..Len(tokens) :
          /\ tokens[i].value = None
          /\ is_some(tokens[i].kind)
          /\ tokens[j].kind = None
          /\ is_some(tokens[j].value)
====
